---- MODULE Spec2Model ----
(***************************************************************************)
(* Model of validate_form_responses.py: the batch job that validates      *)
(* BraTS data-access form responses against Synapse and logs the result.  *)
(*                                                                         *)
(* One action per external call of the script, in the order the code      *)
(* makes them.  The Synapse service and the Google sheet are the          *)
(* environment: every call returns or raises nondeterministically, within *)
(* what the real membership / directory state allows.                     *)
(*                                                                         *)
(* A user name is a sequence of one-character strings, so that str.strip  *)
(* and str.isdigit are computed rather than assumed.  The first column of *)
(* a log row (the wall-clock time of logging) is never read back by the   *)
(* program and is left out of the rows.                                   *)
(***************************************************************************)
EXTENDS Integers, Sequences, FiniteSets, TLC

\* ------------------------------------------------------------------ bounds
MaxResp == 2         \* rows in the responses worksheet
MaxLog0 == 0         \* rows in the logs worksheet, after its first, before the first run
MaxRuns == 2         \* invocations of main()

\* --------------------------------------------------------- program constants
CHALLENGE_TEAM_ID == 3523569
DATA_ACCESS_TEAM_ID == 3523636

\* keys of EMAIL_TEMPLATES
EMAIL_TEMPLATES == {"Access already granted", "Pending invite", "Missing registration"}

\* ------------------------------------------------------------- environment
Accounts == {"A1"}

\* Synapse user names that exist, and the ownerId of each.  Any other name
\* belongs to no user.
Directory == (<<"a">> :> "A1")

Digits == {"1"}
Whitespace == {" "}

\* Rows the responses worksheet may hold: the user "a" as typed and with a
\* trailing blank, a name of no user, and a digits-only name of no user.
ResponseRows == { [Timestamp |-> "t1", Username |-> <<"a">>],
                  [Timestamp |-> "t2", Username |-> <<"a", " ">>],
                  [Timestamp |-> "t1", Username |-> <<"g">>],
                  [Timestamp |-> "t1", Username |-> <<"1">>] }

\* Both worksheets hold at least one row below the header: main selects
\* its columns from the records of each.  The first row of the log is of a
\* response that has since left the table.
SeedRow == [Timestamp |-> "t0", Username |-> <<"s">>, result |-> "Invite sent"]

SeqsFromTo(S, m, n) == UNION { [1..k -> S] : k \in m..n }

\* ------------------------------------------------------------ pure helpers
RECURSIVE LStrip(_)
LStrip(s) == IF s # <<>> /\ Head(s) \in Whitespace THEN LStrip(Tail(s)) ELSE s

RECURSIVE RStrip(_)
RStrip(s) == IF s # <<>> /\ s[Len(s)] \in Whitespace
             THEN RStrip(SubSeq(s, 1, Len(s) - 1)) ELSE s

\* str(response["Synapse Username"]).strip()
Strip(s) == RStrip(LStrip(s))

\* username.isdigit()
IsDigit(s) == s # <<>> /\ \A i \in 1..Len(s) : s[i] \in Digits

\* A row is in a log when a log row has its Timestamp and its raw Synapse
\* Username (the merge gives it _merge == "both").
InLogsRaw(r, lg) ==
    \E k \in 1..Len(lg) : lg[k].Timestamp = r.Timestamp /\ lg[k].Username = r.Username

\* Mutation of InLogs: the merge keyed on the stripped name used for lookup.
InLogsStripped(r, lg) ==
    \E k \in 1..Len(lg) : lg[k].Timestamp = r.Timestamp /\ lg[k].Username = Strip(r.Username)

\* main lines 205-210: the left merge on ["Timestamp", "Synapse Username"].
InLogs(r, lg) == InLogsRaw(r, lg)

RECURSIVE LeftOnly(_, _, _)
LeftOnly(resp, lg, i) ==
    IF i > Len(resp) THEN <<>>
    ELSE (IF InLogs(resp[i], lg) THEN <<>> ELSE <<i>>) \o LeftOnly(resp, lg, i + 1)

RECURSIVE Reverse(_)
Reverse(s) == IF s = <<>> THEN <<>> ELSE Append(Reverse(Tail(s)), Head(s))

\* Mutation of NewResponses: the left_only rows, last row first.
NewResponsesReversed(resp, lg) == Reverse(LeftOnly(resp, lg, 1))

\* new_responses: the indices of the left_only rows, in worksheet order.
NewResponses(resp, lg) == LeftOnly(resp, lg, 1)

\* ------------------------------------------------------------------- state
VARIABLES
    responses,        \* the responses worksheet: rows [Timestamp, Username]
    logs,             \* the logs worksheet: rows [Timestamp, Username, result]
    daMembers,        \* accounts that are members of the data-access team
    chMembers,        \* accounts that are members of the challenge team
    openInv,          \* accounts with an open invitation to the data-access team
    pc,               \* position of the script
    runs,             \* invocations of main() so far
    new_responses,    \* main: indices of the unprocessed rows, in table order
    pos,              \* main: position of the for loop in new_responses
    current_invites,  \* main: the open-invite snapshot
    syn_userid,       \* validate_response: ownerId of the resolved profile
    result,           \* validate_response: the outcome computed so far
    err_level,        \* send_invalid_email: its err_level argument
    user_id,          \* send_invalid_email: its user_id argument
    caller,           \* send_invalid_email: which function called it
    calls,            \* history: the external calls of this run, in order
    ret,              \* history: per row, what validate_response returned
    exc,              \* history: the exception that ended the run, if any
    logs0,            \* history: the logs worksheet as this run read it
    prev              \* history: how the previous run ended, and the rows logged so far

vars == << responses, logs, daMembers, chMembers, openInv, pc, runs, new_responses,
           pos, current_invites, syn_userid, result, err_level, user_id, caller, calls, ret,
           exc, logs0, prev >>

unchangedInRun == << responses, daMembers, chMembers, runs, logs0, prev >>

NoExc == [type |-> "none", where |-> "none"]

\* Row of the responses worksheet the for loop is at.
cur == new_responses[pos]
row == responses[cur]

\* str(response["Synapse Username"]).strip()
submitted_username == Strip(row.Username)

Event(kind, team, user, out) ==
    [kind |-> kind, idx |-> cur, team |-> team, user |-> user, out |-> out]

\* An uncaught exception ends the process.
Raise(type, where) ==
    /\ pc' = "aborted"
    /\ exc' = [type |-> type, where |-> where]
    /\ ret' = IF where = "validate_response" THEN [ret EXCEPT ![cur] = "raised"] ELSE ret

\* Accounts some row of the table resolves to: the teams and invitations of
\* any other account are never asked about.
Submitters(resp) ==
    { Directory[Strip(resp[i].Username)] :
        i \in { j \in 1..Len(resp) : Strip(resp[j].Username) \in DOMAIN Directory } }

Init ==
    /\ responses \in SeqsFromTo(ResponseRows, 1, MaxResp)
    /\ logs \in { <<SeedRow>> \o [k \in 1..Len(l) |-> [Timestamp |-> l[k].Timestamp,
                                                        Username |-> l[k].Username,
                                                        result |-> "Username not found"]]
                  : l \in SeqsFromTo(ResponseRows, 0, MaxLog0) }
    /\ daMembers \in SUBSET Submitters(responses)
    /\ chMembers \in SUBSET Submitters(responses)
    /\ openInv \in SUBSET (Submitters(responses) \ daMembers)
    /\ pc = "start"
    /\ runs = 1
    /\ new_responses = <<>>
    /\ pos = 0
    /\ current_invites = {}
    /\ syn_userid = "none"
    /\ result = "none"
    /\ err_level = "none"
    /\ user_id = "none"
    /\ caller = "none"
    /\ calls = <<>>
    /\ ret = [i \in 1..Len(responses) |-> "none"]
    /\ exc = NoExc
    /\ logs0 = logs
    /\ prev = [pc |-> "none", logged |-> {}]

\* main, lines 188-213: read both worksheets, keep the left_only rows.
MainStart ==
    /\ pc = "start"
    /\ new_responses' = NewResponses(responses, logs)
    /\ pos' = IF new_responses' = <<>> THEN 0 ELSE 1
    /\ pc' = IF new_responses' = <<>> THEN "done" ELSE "get_open_invites"
    /\ UNCHANGED << unchangedInRun, logs, openInv, current_invites, syn_userid, result,
                    err_level, user_id, caller, calls, ret, exc >>

\* main line 215, get_open_invites: one fetch of the open invitations.
GetOpenInvites ==
    /\ pc = "get_open_invites"
    /\ \/ /\ current_invites' = openInv
          /\ calls' = Append(calls, [Event("get_team_open_invitations",
                                           DATA_ACCESS_TEAM_ID, "none", "ok") EXCEPT !.idx = 0])
          /\ pc' = "is_valid_synapse_user"
          /\ UNCHANGED << ret, exc >>
       \/ /\ calls' = Append(calls, [Event("get_team_open_invitations",
                                           DATA_ACCESS_TEAM_ID, "none", "raise") EXCEPT !.idx = 0])
          /\ pc' = "aborted"
          /\ exc' = [type |-> "Exception", where |-> "get_open_invites"]
          /\ UNCHANGED << current_invites, ret >>
    /\ UNCHANGED << unchangedInRun, logs, openInv, new_responses, pos, syn_userid, result,
                    err_level, user_id, caller >>

\* What the account service can answer to the user lookup of a name: the
\* profile of a user; no match (IndexError of the prefix search, ValueError
\* of getUserProfile); for a name that is not digits and not a user's, the
\* SynapseHTTPError "UserProfile cannot be found" when the name is a team's;
\* another SynapseHTTPError; or an exception of another class.
LookupAnswers(name) ==
    (IF name \in DOMAIN Directory THEN {"profile"}
     ELSE IF IsDigit(name) THEN {"nomatch"}
     ELSE {"nomatch", "http_profile_missing"})
        \cup {"http_other", "raise"}

\* is_valid_synapse_user, lines 66-83 (up to the call of getTeam).
IsValidSynapseUser ==
    /\ pc = "is_valid_synapse_user"
    /\ \E ans \in LookupAnswers(submitted_username) :
        LET kind == IF IsDigit(submitted_username) THEN "userGroupHeaders"
                    ELSE "getUserProfile"
            owner == IF ans = "profile" THEN Directory[submitted_username] ELSE "none"
        IN
        /\ calls' = Append(calls, Event(kind, 0, owner, ans))
        /\ CASE ans = "profile" ->
                  /\ syn_userid' = owner
                  /\ pc' = "is_team_member_da"
                  /\ UNCHANGED << result, ret, exc >>
             [] ans \in {"nomatch", "http_other"} ->
                  \* IndexError / ValueError / other SynapseHTTPError: return None
                  /\ result' = "Username not found"
                  /\ ret' = [ret EXCEPT ![cur] = "Username not found"]
                  /\ pc' = "add_result_to_logs"
                  /\ UNCHANGED << syn_userid, exc >>
             [] ans = "http_profile_missing" ->
                  /\ pc' = "getTeam"
                  /\ UNCHANGED << syn_userid, result, ret, exc >>
             [] OTHER ->
                  /\ Raise("Exception", "validate_response")
                  /\ UNCHANGED << syn_userid, result >>
    /\ UNCHANGED << unchangedInRun, logs, openInv, new_responses, pos, current_invites,
                    err_level, user_id, caller >>

\* is_valid_synapse_user, lines 78-80: the submitted name may be a team's.
GetTeam ==
    /\ pc = "getTeam"
    /\ \/ /\ calls' = Append(calls, Event("getTeam", 0, "none", "ok"))
          /\ user_id' = "team"
          /\ err_level' = "Username not provided"
          /\ caller' = "is_valid_synapse_user"
          /\ pc' = "send_invalid_email"
          /\ UNCHANGED << ret, exc >>
       \/ /\ calls' = Append(calls, Event("getTeam", 0, "none", "raise"))
          /\ Raise("Exception", "validate_response")
          /\ UNCHANGED << err_level, user_id, caller >>
    /\ UNCHANGED << unchangedInRun, logs, openInv, new_responses, pos, current_invites, syn_userid,
                    result >>

\* What the account service can answer to GET /team/{team}/member/{user}.
MemberAnswers(members, user) ==
    (IF user \in members THEN {"ok"} ELSE {"not_found"}) \cup {"http_other", "raise"}

\* is_team_member, lines 90-94: True when the GET returns, False on any
\* SynapseHTTPError.
is_team_member(ans) == ans = "ok"

\* validate_response, lines 171-172: every result but "Invite sent" goes to
\* send_invalid_email.
ToNotification ==
    /\ err_level' = result'
    /\ user_id' = syn_userid
    /\ caller' = "validate_response"
    /\ pc' = "send_invalid_email"

\* Mutation of PendingInvite: the open invitations asked for again per row.
PendingInviteLive(user) == user \in openInv

\* validate_response line 164: syn_userid in open_invites, the snapshot main
\* passes to every row.
PendingInvite(user) == user \in current_invites

\* validate_response line 155: second check, the data-access team.
IsTeamMemberDA ==
    /\ pc = "is_team_member_da"
    /\ \E ans \in MemberAnswers(daMembers, syn_userid) :
        /\ calls' = Append(calls, Event("member", DATA_ACCESS_TEAM_ID, syn_userid, ans))
        /\ IF ans = "raise"
           THEN /\ Raise("Exception", "validate_response")
                /\ UNCHANGED << result, err_level, user_id, caller >>
           ELSE IF is_team_member(ans)
           THEN /\ result' = "Access already granted"
                /\ ToNotification
                /\ UNCHANGED << ret, exc >>
           ELSE /\ pc' = "is_team_member_ch"
                /\ UNCHANGED << result, err_level, user_id, caller, ret, exc >>
    /\ UNCHANGED << unchangedInRun, logs, openInv, new_responses, pos, current_invites, syn_userid >>

\* validate_response lines 159-169: third check, the challenge team, and
\* the look into the open-invite snapshot.
IsTeamMemberCH ==
    /\ pc = "is_team_member_ch"
    /\ \E ans \in MemberAnswers(chMembers, syn_userid) :
        /\ calls' = Append(calls, Event("member", CHALLENGE_TEAM_ID, syn_userid, ans))
        /\ IF ans = "raise"
           THEN /\ Raise("Exception", "validate_response")
                /\ UNCHANGED << result, err_level, user_id, caller >>
           ELSE IF is_team_member(ans)
           THEN IF PendingInvite(syn_userid)
                THEN /\ result' = "Pending invite"
                     /\ ToNotification
                     /\ UNCHANGED << ret, exc >>
                ELSE /\ pc' = "send_email_invite"
                     /\ UNCHANGED << result, err_level, user_id, caller, ret, exc >>
           ELSE /\ result' = "Missing registration"
                /\ ToNotification
                /\ UNCHANGED << ret, exc >>
    /\ UNCHANGED << unchangedInRun, logs, openInv, new_responses, pos, current_invites, syn_userid >>

\* send_email_invite, lines 106-119, and the test of line 171.
SendEmailInvite ==
    /\ pc = "send_email_invite"
    /\ \/ /\ calls' = Append(calls, Event("invite_to_team", DATA_ACCESS_TEAM_ID,
                                          syn_userid, "ok"))
          /\ openInv' = IF syn_userid \in daMembers THEN openInv
                        ELSE openInv \cup {syn_userid}
          /\ result' = "Invite sent"
          /\ ret' = [ret EXCEPT ![cur] = "Invite sent"]
          /\ pc' = "add_result_to_logs"
          /\ UNCHANGED << err_level, user_id, caller >>
       \/ /\ calls' = Append(calls, Event("invite_to_team", DATA_ACCESS_TEAM_ID,
                                          syn_userid, "raise"))
          /\ result' = "Error sending invite"
          /\ ToNotification
          /\ UNCHANGED << openInv, ret >>
    /\ UNCHANGED << unchangedInRun, logs, new_responses, pos, current_invites, syn_userid, exc >>

\* EMAIL_TEMPLATES.get(err_level) is a string (and not None).
HasTemplate(level) == level \in EMAIL_TEMPLATES

\* send_invalid_email, lines 122-134, and the return of its caller.
SendInvalidEmail ==
    /\ pc = "send_invalid_email"
    /\ IF ~HasTemplate(err_level)
       THEN \* message += None
            /\ Raise("TypeError", "validate_response")
            /\ UNCHANGED << calls, result >>
       ELSE \/ /\ calls' = Append(calls, Event("sendMessage", 0, user_id, "ok"))
               /\ result' = IF caller = "is_valid_synapse_user"
                            THEN "Username not found" ELSE result
               /\ ret' = [ret EXCEPT ![cur] = result']
               /\ pc' = "add_result_to_logs"
               /\ UNCHANGED exc
            \/ /\ calls' = Append(calls, Event("sendMessage", 0, user_id, "raise"))
               /\ Raise("Exception", "validate_response")
               /\ UNCHANGED result
    /\ UNCHANGED << unchangedInRun, logs, openInv, new_responses, pos, current_invites, syn_userid,
                    err_level, user_id, caller >>

\* The row add_result_to_logs appends (without the wall-clock column).
NewRow(r, res) == [Timestamp |-> r.Timestamp, Username |-> r.Username, result |-> res]

\* The for loop of main: the position after the row at p.
NextPos(p) == p + 1

\* main lines 218-220, add_result_to_logs, and the step of the for loop.
AddResultToLogs ==
    /\ pc = "add_result_to_logs"
    /\ \/ /\ calls' = Append(calls, Event("append_row", 0, "none", "ok"))
          /\ logs' = Append(logs, NewRow(row, ret[cur]))
          /\ IF pos < Len(new_responses)
             THEN /\ pos' = NextPos(pos)
                  /\ pc' = "is_valid_synapse_user"
             ELSE /\ pos' = pos
                  /\ pc' = "done"
          /\ syn_userid' = "none"
          /\ result' = "none"
          /\ err_level' = "none"
          /\ user_id' = "none"
          /\ caller' = "none"
          /\ UNCHANGED exc
       \/ /\ calls' = Append(calls, Event("append_row", 0, "none", "raise"))
          /\ pc' = "aborted"
          /\ exc' = [type |-> "Exception", where |-> "add_result_to_logs"]
          /\ UNCHANGED << logs, pos, syn_userid, result, err_level, user_id, caller >>
    /\ UNCHANGED << unchangedInRun, openInv, new_responses, current_invites, ret >>

\* Rows of the responses worksheet this run has logged so far.
Logged == { calls[k].idx : k \in { j \in 1..Len(calls) :
                                     calls[j].kind = "append_row" /\ calls[j].out = "ok" } }

\* The external trigger invokes the script again (line 223-227).
Restart ==
    /\ pc \in {"done", "aborted"}
    /\ runs < MaxRuns
    /\ runs' = runs + 1
    /\ prev' = [pc |-> pc, logged |-> prev.logged \cup Logged]
    /\ logs0' = logs
    /\ pc' = "start"
    /\ new_responses' = <<>>
    /\ pos' = 0
    /\ current_invites' = {}
    /\ syn_userid' = "none"
    /\ result' = "none"
    /\ err_level' = "none"
    /\ user_id' = "none"
    /\ caller' = "none"
    /\ calls' = <<>>
    /\ ret' = [i \in 1..Len(responses) |-> "none"]
    /\ exc' = NoExc
    /\ UNCHANGED << responses, logs, daMembers, chMembers, openInv >>

Next ==
    \/ MainStart
    \/ GetOpenInvites
    \/ IsValidSynapseUser
    \/ GetTeam
    \/ IsTeamMemberDA
    \/ IsTeamMemberCH
    \/ SendEmailInvite
    \/ SendInvalidEmail
    \/ AddResultToLogs
    \/ Restart

Spec == Init /\ [][Next]_vars

\* ---------------------------------------------------------------- properties
Idx == 1..Len(responses)
Pos == 1..Len(calls)

EventsOf(i) == { k \in Pos : calls[k].idx = i }
Count(i, kind) == Cardinality({ k \in EventsOf(i) : calls[k].kind = kind })
Answered(i, outs) == \E k \in EventsOf(i) : calls[k].out \in outs

LookupKinds == {"userGroupHeaders", "getUserProfile"}

\* The lookup of row i returned a profile.
Resolved(i) == \E k \in EventsOf(i) : calls[k].kind \in LookupKinds /\ calls[k].out = "profile"
AccountOf(i) == Directory[Strip(responses[i].Username)]

\* validate_response has ended for row i, by a return or by an exception.
Terminated(i) == ret[i] # "none"

\* The outcome computed for row i: what was returned, or what result held
\* when the exception left validate_response.
Outcome(i) == IF ret[i] = "raised" THEN result ELSE ret[i]

\* Row i was not in the log when this run read it.
Unprocessed(i) == ~InLogsRaw(responses[i], logs0)

\* C1: per response at most one invite_to_team call, and only when the
\* identifier resolved to an account that is not a data-access member, is a
\* challenge member and is not in the open_invites snapshot.
C1_InviteOnlyWhenEligible ==
    \A i \in Idx :
        /\ Count(i, "invite_to_team") <= 1
        /\ Count(i, "invite_to_team") = 1 =>
              /\ Resolved(i)
              /\ AccountOf(i) \notin daMembers
              /\ AccountOf(i) \in chMembers
              /\ AccountOf(i) \notin current_invites

\* The outcome the ordered rule of the specification picks for an account.
Expected(i) ==
    IF AccountOf(i) \in daMembers THEN "Access already granted"
    ELSE IF AccountOf(i) \in chMembers /\ AccountOf(i) \in current_invites
         THEN "Pending invite"
    ELSE IF AccountOf(i) \in chMembers
         THEN (IF \E k \in EventsOf(i) : calls[k].kind = "invite_to_team" /\ calls[k].out = "ok"
               THEN "Invite sent" ELSE "Error sending invite")
    ELSE "Missing registration"

\* C2: classification totality.  For a resolved identifier whose membership
\* checks were answered without error and whose notification went out,
\* validate_response returns the outcome of the ordered rule; for an
\* identifier without a match it returns "Username not found".
C2_ClassificationTotal ==
    \A i \in Idx :
        /\ ( /\ Terminated(i)
             /\ Resolved(i)
             /\ ~Answered(i, {"http_other"})
             /\ \A k \in EventsOf(i) : calls[k].out = "raise" => calls[k].kind = "invite_to_team" )
           => ret[i] = Expected(i)
        /\ (Terminated(i) /\ Answered(i, {"nomatch"})) => ret[i] = "Username not found"

\* C3: notification gating.  Once a response has an outcome, a sendMessage
\* call was made for it iff the outcome is neither "Invite sent" nor
\* "Username not found", and never more than one.
C3_NotificationGating ==
    \A i \in Idx :
        (Terminated(i) /\ Outcome(i) # "none") =>
            /\ Count(i, "sendMessage") <= 1
            /\ Count(i, "sendMessage") = 1
                  <=> Outcome(i) \notin {"Invite sent", "Username not found"}

\* The ok append_row calls of this run, in order.
AppendEvents == SelectSeq(calls, LAMBDA e : e.kind = "append_row" /\ e.out = "ok")

\* The k-th row this run appended.
AppendedRow(k) == logs[Len(logs0) + k]

\* A call failed in a way the specification lets propagate: a lookup, a
\* membership check, the open-invite fetch or the worksheet append raised
\* something that is not caught.
FatalFailure ==
    \E k \in Pos : calls[k].out = "raise" /\ calls[k].kind \notin {"invite_to_team", "sendMessage"}

\* C4: completeness.  When a run has ended without a fatal failure, every
\* response that was not in the log has exactly one appended row, and the
\* row carries the response's raw Timestamp and Synapse Username.
C4_Completeness ==
    (pc \in {"done", "aborted"} /\ ~FatalFailure) =>
        \A i \in Idx : Unprocessed(i) =>
            /\ Cardinality({ k \in 1..Len(AppendEvents) : AppendEvents[k].idx = i }) = 1
            /\ \A k \in 1..Len(AppendEvents) : AppendEvents[k].idx = i =>
                  /\ Len(logs) >= Len(logs0) + k
                  /\ AppendedRow(k).Timestamp = responses[i].Timestamp
                  /\ AppendedRow(k).Username = responses[i].Username

\* C5: idempotence through dedup.  A response whose (Timestamp, Username)
\* pair was in the log when the run started, and every response an earlier
\* run logged, causes no call and no log row; a run without new responses
\* makes no call at all and leaves the log as it was.
C5_Idempotence ==
    /\ \A i \in Idx : (~Unprocessed(i) \/ i \in prev.logged) =>
          /\ \A k \in Pos : calls[k].idx # i
          /\ ret[i] = "none"
    /\ (\A i \in Idx : ~Unprocessed(i)) => (calls = <<>> /\ logs = logs0)

\* C5 witness: a re-run, after a run that logged a row and then aborted, has
\* processed the remaining response and skipped the logged one.
C5_Witness ==
    /\ runs = 2
    /\ prev.pc = "aborted"
    /\ prev.logged # {}
    /\ pc = "done"
    /\ calls # <<>>
    /\ \E i \in Idx : i \in prev.logged /\ EventsOf(i) = {}

\* C6: a failed invite call or notification send is caught inside
\* validate_response: no exception leaves it for that response.
C6_WriteFailureCaught ==
    \A i \in Idx :
        (\E k \in EventsOf(i) : calls[k].kind \in {"invite_to_team", "sendMessage"}
                                /\ calls[k].out = "raise")
            => ret[i] # "raised"

C8_MembershipErrorPropagates ==
    \A k \in Pos :
        (calls[k].kind = "member" /\ calls[k].out = "http_other") =>
            /\ k = Len(calls)
            /\ pc = "aborted"
            /\ ret[calls[k].idx] = "raised"

\* C9: order within a run.  The open invites are fetched once, as the first
\* call, before any row is classified; the rows are handled one at a time in table order; a row's log
\* append is its last call; the rows appended are those of the ok appends,
\* in table order, after the rows the log already had.
C9_Ordering ==
    LET ae == AppendEvents
        n == Len(calls)
    IN
    /\ \A k \in 1..n : calls[k].kind = "get_team_open_invitations" <=> k = 1
    /\ pc \in {"is_valid_synapse_user", "add_result_to_logs", "done"} /\ new_responses # <<>>
          => (n >= 1 /\ calls[1].out = "ok")
    /\ \A k \in 2..(n - 1) :
          /\ calls[k].idx <= calls[k + 1].idx
          /\ calls[k].kind = "append_row" => calls[k].idx < calls[k + 1].idx
    /\ Len(logs) = Len(logs0) + Len(ae)
    /\ SubSeq(logs, 1, Len(logs0)) = logs0
    /\ \A k \in 1..Len(ae) :
          /\ AppendedRow(k).Timestamp = responses[ae[k].idx].Timestamp
          /\ AppendedRow(k).Username = responses[ae[k].idx].Username
          /\ k < Len(ae) => ae[k].idx < ae[k + 1].idx

\* C9 witness: a finished run that handled two rows, with a notification
\* for one of them, and logged both.
C9_Witness ==
    /\ pc = "done"
    /\ Len(AppendEvents) = 2
    /\ \E k \in Pos : calls[k].kind = "sendMessage"

\* C10 as stated: within one run no account receives more than one invite
\* call.
C10_OneInvitePerAccount ==
    \A a \in Accounts :
        Cardinality({ k \in Pos : calls[k].kind = "invite_to_team" /\ calls[k].user = a }) <= 1

\* C10 amended: a response issues at most one invite call; after a
\* successful invite call the snapshot is unchanged, so a later response of
\* the same run that resolves to the invited account and passes the
\* challenge-team check is never "Pending invite": its next call is
\* another invite.
C10_InvitePerResponse ==
    /\ \A i \in Idx : Count(i, "invite_to_team") <= 1
    /\ \A k \in Pos :
          (calls[k].kind = "invite_to_team" /\ calls[k].out = "ok") =>
              \A m \in (k + 1)..Len(calls) :
                  ( /\ calls[m].kind = "member" /\ calls[m].team = CHALLENGE_TEAM_ID
                    /\ calls[m].user = calls[k].user /\ calls[m].out = "ok" )
                  => /\ ret[calls[m].idx] # "Pending invite"
                     /\ m < Len(calls) => calls[m + 1].kind = "invite_to_team"

\* C10 witness: two responses of one run resolved to the same account and
\* each got a successful invite call.
C10_Witness ==
    /\ pc = "done"
    /\ \E k, m \in Pos : /\ k < m
                         /\ calls[k].kind = "invite_to_team" /\ calls[k].out = "ok"
                         /\ calls[m].kind = "invite_to_team" /\ calls[m].out = "ok"
                         /\ calls[k].user = calls[m].user

====
